---- MODULE Spec2Model ----
(***************************************************************************)
(* A model of gotrue-rs: the Session Manager (src/client.rs, struct        *)
(* Client) on top of the Transport (src/api.rs, struct Api).               *)
(*                                                                         *)
(* Every public method of Client is one action.  A method is an async fn   *)
(* that awaits exactly one Transport future; the &mut self receivers of    *)
(* sign_up, sign_in and refresh_session exclude every other call on the    *)
(* same instance while they run, and the &self methods write no field, so  *)
(* a whole call is one atomic step of its instance.  The remote service is *)
(* the environment: its reply to a request is drawn with \E.               *)
(***************************************************************************)
EXTENDS Naturals, Sequences, FiniteSets, TLC

\* Number of Client instances alive in the process.
NumClients == 2

Instances == 1..NumClients

(***************************************************************************)
(* Rust values                                                             *)
(***************************************************************************)
None == [tag |-> "None"]
Some(v) == [tag |-> "Some", val |-> v]

Ok(v) == [tag |-> "Ok", val |-> v]
Err(e) == [tag |-> "Err", err |-> e]

\* What a call hands back to its caller: a value, or a panic that unwinds
\* out of the call.
Return(v) == [tag |-> "Return", val |-> v]
Panic(m) == [tag |-> "Panic", msg |-> m]

\* A bool, and the UserUpdate the service decodes to, as values that can
\* stand where a Session or a Result can.
Bool(b) == [bool |-> b]
UserUpdate(email) == [updated |-> email]

\* struct User and struct UserList, as the service decodes to them.
User(email) == [identity |-> email]
UserList(emails) == [users |-> emails]

(***************************************************************************)
(* Data model                                                              *)
(***************************************************************************)
\* struct Session.  The Sessions the service hands out here: two that differ
\* in every field, one whose access token holds a byte that is not allowed
\* in a header value ("tok\n"), and one whose refresh token is the empty
\* string.
Session(access_token, refresh_token, user) ==
    [access_token |-> access_token, refresh_token |-> refresh_token, user |-> user]

Sessions == {Session("tok1", "r1", "a@example.com"),
             Session("tok2", "r2", "b@example.com"),
             Session("tok\n", "r1", "a@example.com"),
             Session("tok1", "", "b@example.com")}

Urls == {"http://localhost:9998"}
Emails == {"a@example.com"}
Passwords == {"Abcd1234!"}

\* enum Error, as used by Client::refresh_session
NotAuthenticated == "NotAuthenticated"
MissingRefreshToken == "MissingRefreshToken"
InternalError == "InternalError"

\* enum EmailOrPhone
Email(e) == [kind |-> "Email", value |-> e]
Phone(p) == [kind |-> "Phone", value |-> p]

(***************************************************************************)
(* The remote service's reply to one HTTP request                          *)
(***************************************************************************)
Garbage == [kind |-> "Garbage"]
SessionBody(s) == [kind |-> "Session", session |-> s]
UserUpdateBody(u) == [kind |-> "UserUpdate", user |-> u]

UserBody(u) == [kind |-> "User", user |-> u]
UserListBody(us) == [kind |-> "UserList", users |-> us]

Bodies == {Garbage} \cup {SessionBody(s) : s \in Sessions}
                    \cup {UserUpdateBody("b@example.com")}

NetworkError == [kind |-> "NetworkError"]
Response(status, body) == [kind |-> "Response", status |-> status, body |-> body]

Replies == {NetworkError} \cup {Response(200, b) : b \in Bodies}
                          \cup {Response(400, Garbage)}

(***************************************************************************)
(* reqwest: headers, requests, responses                                   *)
(***************************************************************************)
\* HeaderMap: header names are case-insensitive and stored lower-cased.
HeaderName(n) ==
    CASE n = "Authorization" -> "authorization"
      [] n = "ApiKey" -> "apikey"
      [] OTHER -> n

HeaderMap_new == [k \in {} |-> ""]

HeaderMap_insert(h, name, value) ==
    [k \in DOMAIN h \cup {HeaderName(name)} |->
        IF k = HeaderName(name) THEN value ELSE h[k]]

\* The strings used here that hold a byte below 32 other than tab, or 127.
HasInvalidHeaderByte(s) == s \in {"tok\n", "Bearer tok\n"}

\* HeaderValue::from_str fails on bytes below 32 (other than tab) and on 127.
HeaderValue_from_str(s) ==
    IF HasInvalidHeaderByte(s) THEN Err("InvalidHeaderValue") ELSE Ok(s)

NoBody == [kind |-> "none"]
Json(v) == [kind |-> "json", json |-> v]

Request(method, endpoint, headers, body) ==
    [method |-> method, endpoint |-> endpoint, headers |-> headers, body |-> body]

\* RequestBuilder::send().await
send(reply) ==
    IF reply.kind = "NetworkError" THEN Err("network") ELSE Ok(reply)

\* Response::error_for_status: 4xx and 5xx become errors.
error_for_status(resp) ==
    IF resp.status \in 400..599 THEN Err("status") ELSE Ok(resp)

\* Response::json::<Session>().await
json_Session(resp) ==
    IF resp.body.kind = "Session" THEN Ok(resp.body.session) ELSE Err("decode")

\* Response::json::<UserUpdate>().await
json_UserUpdate(resp) ==
    IF resp.body.kind = "UserUpdate" THEN Ok(UserUpdate(resp.body.user)) ELSE Err("decode")

\* Response::json::<User>().await
json_User(resp) ==
    IF resp.body.kind = "User" THEN Ok(User(resp.body.user)) ELSE Err("decode")

\* Response::json::<UserList>().await
json_UserList(resp) ==
    IF resp.body.kind = "UserList" THEN Ok(UserList(resp.body.users)) ELSE Err("decode")

\* .send().await?.error_for_status()?
send_checked(reply) ==
    LET sent == send(reply)
    IN  IF sent.tag = "Err" THEN sent ELSE error_for_status(sent.val)

(***************************************************************************)
(* Transport: struct Api.  An operator Api_f(self, args, reply) gives what *)
(* one call of Api::f does when the service answers its request with       *)
(* reply: the requests it sent and its result.                             *)
(***************************************************************************)
Api_new(url) == [url |-> url, headers |-> HeaderMap_new]

Api_insert_header(self, header_name, header_value) ==
    [self EXCEPT !.headers = HeaderMap_insert(self.headers, header_name, header_value)]

\* One invocation of a Transport operation, as the Session Manager sees it.
Invocation(fn, args, requests, result) ==
    [fn |-> fn, args |-> args, requests |-> requests, result |-> result]

\* A variant that always writes both identifier fields, the unused one
\* empty.
CredentialBody_both_fields(email_or_phone, password) ==
    IF email_or_phone.kind = "Email"
    THEN [email |-> email_or_phone.value, phone |-> "", password |-> password]
    ELSE [email |-> "", phone |-> email_or_phone.value, password |-> password]

\* The JSON body the credential operations build from an EmailOrPhone.
CredentialBody(email_or_phone, password) ==
    IF email_or_phone.kind = "Email"
    THEN [email |-> email_or_phone.value, password |-> password]
    ELSE [phone |-> email_or_phone.value, password |-> password]

\* The tail shared by the operations that decode a Session.
SessionResult(reply) ==
    LET checked == send_checked(reply)
    IN  IF checked.tag = "Err" THEN checked ELSE json_Session(checked.val)

\* The tail shared by the operations that only acknowledge.
AckResult(reply) ==
    LET checked == send_checked(reply)
    IN  IF checked.tag = "Err" THEN checked ELSE Ok(Bool(TRUE))

Api_sign_up(self, email_or_phone, password, reply) ==
    Invocation("sign_up", [email_or_phone |-> email_or_phone, password |-> password],
        << Request("POST", self.url \o "/signup", self.headers,
                   Json(CredentialBody(email_or_phone, password))) >>,
        SessionResult(reply))

Api_sign_in(self, email_or_phone, password, reply) ==
    Invocation("sign_in", [email_or_phone |-> email_or_phone, password |-> password],
        << Request("POST", self.url \o "/token" \o "?grant_type=password", self.headers,
                   Json(CredentialBody(email_or_phone, password))) >>,
        SessionResult(reply))

\* Option<bool> inside Some(..), as serde_json writes it.
JsonOptionBool(o) ==
    IF o.tag = "None" THEN "null" ELSE IF o.val THEN "true" ELSE "false"

Api_send_otp(self, email_or_phone, should_create_user, reply) ==
    Invocation("send_otp",
        [email_or_phone |-> email_or_phone, should_create_user |-> should_create_user],
        << Request("POST", self.url \o "/otp", self.headers,
                   Json(IF email_or_phone.kind = "Email"
                        THEN [email |-> email_or_phone.value,
                              should_create_user |-> JsonOptionBool(should_create_user)]
                        ELSE [phone |-> email_or_phone.value,
                              should_create_user |-> JsonOptionBool(should_create_user)])) >>,
        AckResult(reply))

\* serde_json::to_value(&params): fails when the caller's type cannot be
\* written as JSON (its Serialize impl errs, or a map has non-string keys).
to_value(params) ==
    IF params.kind = "Unserializable" THEN Err("serialize") ELSE Ok(params.payload)

Api_verify_otp(self, params, reply) ==
    LET body == to_value(params)
    IN  IF body.tag = "Err"
        THEN Invocation("verify_otp", [params |-> params], << >>,
                        Panic("unwrap on Err"))
        ELSE Invocation("verify_otp", [params |-> params],
                 << Request("POST", self.url \o "/verify", self.headers, Json(body.val)) >>,
                 AckResult(reply))

\* A variant that leaves a configured Authorization header in place.
BearerHeaders_keeps_configured(self, token) ==
    LET value == HeaderValue_from_str("Bearer " \o token)
    IN  IF value.tag = "Err" THEN value
        ELSE IF "authorization" \in DOMAIN self.headers THEN Ok(self.headers)
        ELSE Ok(HeaderMap_insert(self.headers, "Authorization", value.val))

\* The headers of an authenticated request: the static ones with the bearer
\* header inserted, or the failure of HeaderValue::from_str.
BearerHeaders(self, token) ==
    LET value == HeaderValue_from_str("Bearer " \o token)
    IN  IF value.tag = "Err" THEN value
        ELSE Ok(HeaderMap_insert(self.headers, "Authorization", value.val))

Api_sign_out(self, access_token, reply) ==
    LET headers == BearerHeaders(self, access_token)
    IN  IF headers.tag = "Err"
        THEN Invocation("sign_out", [access_token |-> access_token], << >>,
                        Panic("Invalid header value."))
        ELSE Invocation("sign_out", [access_token |-> access_token],
                 << Request("POST", self.url \o "/logout", headers.val, NoBody) >>,
                 AckResult(reply))

Api_reset_password_for_email(self, email, reply) ==
    Invocation("reset_password_for_email", [email |-> email],
        << Request("POST", self.url \o "/recover", self.headers, Json([email |-> email])) >>,
        AckResult(reply))

Api_refresh_access_token(self, refresh_token, reply) ==
    Invocation("refresh_access_token", [refresh_token |-> refresh_token],
        << Request("POST", self.url \o "/token?grant_type=refresh_token", self.headers,
                   Json([refresh_token |-> refresh_token])) >>,
        SessionResult(reply))

Api_update_user(self, user, jwt, reply) ==
    LET headers == BearerHeaders(self, jwt)
        checked == send_checked(reply)
    IN  IF headers.tag = "Err"
        THEN Invocation("update_user", [user |-> user, jwt |-> jwt], << >>,
                        Panic("Invalid header value."))
        ELSE Invocation("update_user", [user |-> user, jwt |-> jwt],
                 << Request("PUT", self.url \o "/user", headers.val,
                            Json([email |-> user.email, password |-> user.password,
                                  data |-> user.data])) >>,
                 IF checked.tag = "Err" THEN checked ELSE json_UserUpdate(checked.val))

\* The tail shared by the operations that decode a User.
UserResult(reply) ==
    LET checked == send_checked(reply)
    IN  IF checked.tag = "Err" THEN checked ELSE json_User(checked.val)

Api_get_user(self, jwt, reply) ==
    LET headers == BearerHeaders(self, jwt)
    IN  IF headers.tag = "Err"
        THEN Invocation("get_user", [jwt |-> jwt], << >>, Panic("Invalid header value."))
        ELSE Invocation("get_user", [jwt |-> jwt],
                 << Request("GET", self.url \o "/user", headers.val, NoBody) >>,
                 UserResult(reply))

Api_invite_user_by_email(self, email, reply) ==
    Invocation("invite_user_by_email", [email |-> email],
        << Request("POST", self.url \o "/invite", self.headers, Json([email |-> email])) >>,
        UserResult(reply))

\* A variant that puts the separator before the query itself.
Api_list_users_adds_separator(self, query_string, reply) ==
    LET endpoint == IF query_string.tag = "Some"
                    THEN self.url \o "/admin/users?" \o query_string.val
                    ELSE self.url \o "/admin/users"
        checked == send_checked(reply)
    IN  Invocation("list_users", [query_string |-> query_string],
            << Request("GET", endpoint, self.headers, NoBody) >>,
            IF checked.tag = "Err" THEN checked ELSE json_UserList(checked.val))

Api_list_users(self, query_string, reply) ==
    LET endpoint == IF query_string.tag = "Some"
                    THEN self.url \o "/admin/users" \o query_string.val
                    ELSE self.url \o "/admin/users"
        checked == send_checked(reply)
    IN  Invocation("list_users", [query_string |-> query_string],
            << Request("GET", endpoint, self.headers, NoBody) >>,
            IF checked.tag = "Err" THEN checked ELSE json_UserList(checked.val))

Api_get_user_by_id(self, user_id, reply) ==
    Invocation("get_user_by_id", [user_id |-> user_id],
        << Request("GET", self.url \o "/admin/users/" \o user_id, self.headers, NoBody) >>,
        UserResult(reply))

\* A variant whose request carries only what the fresh reqwest client adds,
\* not the headers of the Api.
Api_create_user_without_headers(self, user, reply) ==
    LET json == to_value(user)
    IN  IF json.tag = "Err"
        THEN Invocation("create_user", [new_user |-> user], << >>, Panic("unwrap on Err"))
        ELSE Invocation("create_user", [new_user |-> user],
                 << Request("POST", self.url \o "/admin/users", HeaderMap_new,
                            Json(json.val)) >>,
                 UserResult(reply))

Api_create_user(self, user, reply) ==
    LET json == to_value(user)
    IN  IF json.tag = "Err"
        THEN Invocation("create_user", [new_user |-> user], << >>, Panic("unwrap on Err"))
        ELSE Invocation("create_user", [new_user |-> user],
                 << Request("POST", self.url \o "/admin/users", self.headers,
                            Json(json.val)) >>,
                 UserResult(reply))

Api_update_user_by_id(self, id, user, reply) ==
    LET json == to_value(user)
    IN  IF json.tag = "Err"
        THEN Invocation("update_user_by_id", [id |-> id, new_user |-> user], << >>,
                        Panic("unwrap on Err"))
        ELSE Invocation("update_user_by_id", [id |-> id, new_user |-> user],
                 << Request("PUT", self.url \o "/admin/users/" \o id, self.headers,
                            Json(json.val)) >>,
                 UserResult(reply))

Api_delete_user(self, user_id, reply) ==
    Invocation("delete_user", [user_id |-> user_id],
        << Request("DELETE", self.url \o "/admin/users/" \o user_id, self.headers, NoBody) >>,
        AckResult(reply))

(***************************************************************************)
(* Session Manager: struct Client.  An operator Client_f(self, args,       *)
(* reply) gives what one call of Client::f does to the instance self when  *)
(* the service answers with reply: the instance afterwards, what the       *)
(* caller gets, and the Transport operations it invoked.                   *)
(***************************************************************************)
Outcome(self, ret, calls) == [self |-> self, ret |-> ret, calls |-> calls]

Client_new(url) ==
    [current_session |-> None, auto_refresh_token |-> TRUE, api |-> Api_new(url)]

\* A variant that takes the tokens of the new Session and keeps the user of
\* a Session that is already there.
Client_sign_up_keeps_user(self, email, password, reply) ==
    LET call == Api_sign_up(self.api, Email(email), password, reply)
    IN  IF call.result.tag = "Ok"
        THEN Outcome([self EXCEPT !.current_session =
                         IF self.current_session.tag = "Some"
                         THEN Some([call.result.val EXCEPT
                                       !.user = self.current_session.val.user])
                         ELSE Some(call.result.val)],
                     Return(call.result.val), << call >>)
        ELSE Outcome(self, Panic(call.result.err), << call >>)

\* The &String the caller passes goes to Api::sign_up as the e-mail
\* identifier.
Client_sign_up(self, email, password, reply) ==
    LET call == Api_sign_up(self.api, Email(email), password, reply)
    IN  IF call.result.tag = "Ok"
        THEN Outcome([self EXCEPT !.current_session = Some(call.result.val)],
                     Return(call.result.val), << call >>)
        ELSE Outcome(self, Panic(call.result.err), << call >>)

\* Faulty variant of Client_sign_in: keeps a Session that is already there.
Client_sign_in_keeps_existing(self, email, password, reply) ==
    LET call == Api_sign_in(self.api, Email(email), password, reply)
    IN  IF call.result.tag = "Ok"
        THEN Outcome(IF self.current_session.tag = "None"
                     THEN [self EXCEPT !.current_session = Some(call.result.val)]
                     ELSE self,
                     Return(call.result.val), << call >>)
        ELSE Outcome(self, Panic(call.result.err), << call >>)

Client_sign_in(self, email, password, reply) ==
    LET call == Api_sign_in(self.api, Email(email), password, reply)
    IN  IF call.result.tag = "Ok"
        THEN Outcome([self EXCEPT !.current_session = Some(call.result.val)],
                     Return(call.result.val), << call >>)
        ELSE Outcome(self, Panic(call.result.err), << call >>)

\* A variant that acts on the auto-refresh flag: with the flag set and a
\* Session held it refreshes the Session before sending the one-time
\* password.
Client_send_otp_auto_refreshes(self, email_or_phone, should_create_user, reply) ==
    LET call == Api_send_otp(self.api, email_or_phone, should_create_user, reply)
    IN  IF self.auto_refresh_token /\ self.current_session.tag = "Some"
        THEN LET refresh == Api_refresh_access_token(self.api,
                                self.current_session.val.refresh_token, reply)
             IN  Outcome(IF refresh.result.tag = "Ok"
                         THEN [self EXCEPT !.current_session = Some(refresh.result.val)]
                         ELSE self,
                         Return(Bool(call.result.tag = "Ok")), << refresh, call >>)
        ELSE Outcome(self, Return(Bool(call.result.tag = "Ok")), << call >>)

Client_send_otp(self, email_or_phone, should_create_user, reply) ==
    LET call == Api_send_otp(self.api, email_or_phone, should_create_user, reply)
    IN  Outcome(self, Return(Bool(call.result.tag = "Ok")), << call >>)

\* A variant that makes the Session of a verification response the current
\* one.
Client_verify_otp_installs_session(self, params, reply) ==
    LET call == Api_verify_otp(self.api, params, reply)
        checked == send_checked(reply)
        decoded == IF checked.tag = "Ok" THEN json_Session(checked.val) ELSE checked
    IN  IF call.result.tag = "Panic"
        THEN Outcome(self, call.result, << call >>)
        ELSE Outcome(IF call.result.tag = "Ok" /\ decoded.tag = "Ok"
                     THEN [self EXCEPT !.current_session = Some(decoded.val)]
                     ELSE self,
                     Return(Bool(call.result.tag = "Ok")), << call >>)

Client_verify_otp(self, params, reply) ==
    LET call == Api_verify_otp(self.api, params, reply)
    IN  IF call.result.tag = "Panic"
        THEN Outcome(self, call.result, << call >>)
        ELSE Outcome(self, Return(Bool(call.result.tag = "Ok")), << call >>)

\* Faulty variant of Client_sign_out: asks the service even without a Session.
Client_sign_out_always_calls(self, reply) ==
    LET call == Api_sign_out(self.api,
                    IF self.current_session.tag = "None" THEN ""
                    ELSE self.current_session.val.access_token, reply)
    IN  IF call.result.tag = "Panic"
        THEN Outcome(self, call.result, << call >>)
        ELSE Outcome(self, Return(Bool(call.result.tag = "Ok")), << call >>)

Client_sign_out(self, reply) ==
    IF self.current_session.tag = "None"
    THEN Outcome(self, Return(Bool(TRUE)), << >>)
    ELSE LET call == Api_sign_out(self.api, self.current_session.val.access_token, reply)
         IN  IF call.result.tag = "Panic"
             THEN Outcome(self, call.result, << call >>)
             ELSE Outcome(self, Return(Bool(call.result.tag = "Ok")), << call >>)

Client_reset_password_for_email(self, email, reply) ==
    LET call == Api_reset_password_for_email(self.api, email, reply)
    IN  Outcome(self, Return(Bool(call.result.tag = "Ok")), << call >>)

\* Faulty variant of Client_update_user: drops the Session when the service
\* rejects the update.
Client_update_user_clears_on_error(self, user, reply) ==
    IF self.current_session.tag = "None"
    THEN Outcome(self, Panic("Not logged in"), << >>)
    ELSE LET call == Api_update_user(self.api, user,
                                     self.current_session.val.access_token, reply)
         IN  IF call.result.tag = "Panic"
             THEN Outcome(self, call.result, << call >>)
             ELSE IF call.result.tag = "Err"
             THEN Outcome([self EXCEPT !.current_session = None],
                          Return(call.result), << call >>)
             ELSE Outcome(self, Return(call.result), << call >>)

Client_update_user(self, user, reply) ==
    IF self.current_session.tag = "None"
    THEN Outcome(self, Panic("Not logged in"), << >>)
    ELSE LET call == Api_update_user(self.api, user,
                                     self.current_session.val.access_token, reply)
         IN  IF call.result.tag = "Panic"
             THEN Outcome(self, call.result, << call >>)
             ELSE Outcome(self, Return(call.result), << call >>)

\* A variant that hands Transport the access token of the current Session.
Client_refresh_session_sends_access_token(self, reply) ==
    IF self.current_session.tag = "None"
    THEN Outcome(self, Return(Err(NotAuthenticated)), << >>)
    ELSE LET call == Api_refresh_access_token(self.api,
                         self.current_session.val.access_token, reply)
         IN  IF call.result.tag = "Ok"
             THEN Outcome([self EXCEPT !.current_session = Some(call.result.val)],
                          Return(Ok(call.result.val)), << call >>)
             ELSE Outcome(self, Return(Err(InternalError)), << call >>)

\* A variant that reports a failed Transport call as NotAuthenticated.
Client_refresh_session_reports_unauthenticated(self, reply) ==
    IF self.current_session.tag = "None"
    THEN Outcome(self, Return(Err(NotAuthenticated)), << >>)
    ELSE LET call == Api_refresh_access_token(self.api,
                         self.current_session.val.refresh_token, reply)
         IN  IF call.result.tag = "Ok"
             THEN Outcome([self EXCEPT !.current_session = Some(call.result.val)],
                          Return(Ok(call.result.val)), << call >>)
             ELSE Outcome(self, Return(Err(NotAuthenticated)), << call >>)

\* Faulty variant of Client_refresh_session: drops the Session when the
\* refresh fails.
Client_refresh_session_clears_on_failure(self, reply) ==
    IF self.current_session.tag = "None"
    THEN Outcome(self, Return(Err(NotAuthenticated)), << >>)
    ELSE LET call == Api_refresh_access_token(self.api,
                         self.current_session.val.refresh_token, reply)
         IN  IF call.result.tag = "Ok"
             THEN Outcome([self EXCEPT !.current_session = Some(call.result.val)],
                          Return(Ok(call.result.val)), << call >>)
             ELSE Outcome([self EXCEPT !.current_session = None],
                          Return(Err(InternalError)), << call >>)

\* Faulty variant of Client_refresh_session: without the is_none() check of
\* lines 103-105, so that the None arm of the match answers.
Client_refresh_session_without_guard(self, reply) ==
    IF self.current_session.tag # "Some"
    THEN Outcome(self, Return(Err(MissingRefreshToken)), << >>)
    ELSE LET call == Api_refresh_access_token(self.api,
                         self.current_session.val.refresh_token, reply)
         IN  IF call.result.tag = "Ok"
             THEN Outcome([self EXCEPT !.current_session = Some(call.result.val)],
                          Return(Ok(call.result.val)), << call >>)
             ELSE Outcome(self, Return(Err(InternalError)), << call >>)

\* Faulty variant of Client_refresh_session: stores the new refresh token in
\* the old Session instead of replacing the Session.
Client_refresh_session_patches_token(self, reply) ==
    IF self.current_session.tag = "None"
    THEN Outcome(self, Return(Err(NotAuthenticated)), << >>)
    ELSE LET call == Api_refresh_access_token(self.api,
                         self.current_session.val.refresh_token, reply)
         IN  IF call.result.tag = "Ok"
             THEN Outcome([self EXCEPT !.current_session.val.refresh_token =
                                            call.result.val.refresh_token],
                          Return(Ok(call.result.val)), << call >>)
             ELSE Outcome(self, Return(Err(InternalError)), << call >>)

Client_refresh_session(self, reply) ==
    IF self.current_session.tag = "None"
    THEN Outcome(self, Return(Err(NotAuthenticated)), << >>)
    ELSE IF self.current_session.tag # "Some"
    THEN Outcome(self, Return(Err(MissingRefreshToken)), << >>)
    ELSE LET call == Api_refresh_access_token(self.api,
                         self.current_session.val.refresh_token, reply)
         IN  IF call.result.tag = "Ok"
             THEN Outcome([self EXCEPT !.current_session = Some(call.result.val)],
                          Return(Ok(call.result.val)), << call >>)
             ELSE Outcome(self, Return(Err(InternalError)), << call >>)

(***************************************************************************)
(* The state machine                                                       *)
(***************************************************************************)
VARIABLES
    clients,   \* the Client instances: instance -> struct Client
    process,   \* "running", or "aborted" once a panic has ended the process
    last,      \* the call made last: who, which, the Session before, the result
    api,       \* an Api the caller builds and uses without a Client
    sent       \* the Transport operation invoked last on api, if any

vars == << clients, process, last, api, sent >>

\* Arguments the callers pass.
Selectors == {Email("a@example.com"), Phone("+15550100")}
ShouldCreateUser == {Some(TRUE)}
OtpParams == {[kind |-> "Serializable",
               payload |-> [type |-> "sms", token |-> "123456", phone |-> "+15550100"]],
              [kind |-> "Unserializable"]}
UserAttributes == {[email |-> "b@example.com", password |-> "Abcd12345!", data |-> "{}"]}

\* The process after it has constructed its instances with Client::new, the
\* last of them last.
Init ==
    /\ clients \in [Instances -> {Client_new(u) : u \in Urls}]
    /\ process = "running"
    /\ last = [client |-> NumClients, op |-> "new", pre |-> None, calls |-> << >>,
               ret |-> Return(Bool(TRUE))]
    /\ api \in {Api_new(u) : u \in Urls}
    /\ sent = None

\* A variant in which the instances share one current Session.
Call_shared_session(c, op, out) ==
    /\ process = "running"
    /\ clients' = [i \in Instances |->
                     [clients[i] EXCEPT !.current_session = out.self.current_session]]
    /\ last' = [client |-> c, op |-> op, pre |-> clients[c].current_session,
                calls |-> out.calls, ret |-> out.ret]
    /\ IF out.ret.tag = "Panic"
       THEN process' \in {"running", "aborted"}
       ELSE process' = "running"
    /\ UNCHANGED << api, sent >>

\* One call of method op on instance c with outcome out.  A panic unwinds
\* out of the call: with panic=abort, or when nothing catches it, the
\* process ends; when the caller catches it the instance stays as it was
\* left.
Call(c, op, out) ==
    /\ process = "running"
    /\ clients' = [clients EXCEPT ![c] = out.self]
    /\ last' = [client |-> c, op |-> op, pre |-> clients[c].current_session,
                calls |-> out.calls, ret |-> out.ret]
    /\ IF out.ret.tag = "Panic"
       THEN process' \in {"running", "aborted"}
       ELSE process' = "running"
    /\ UNCHANGED << api, sent >>

sign_up(c) ==
    \E email \in Emails, password \in Passwords, reply \in Replies :
        Call(c, "sign_up", Client_sign_up(clients[c], email, password, reply))

sign_in(c) ==
    \E email \in Emails, password \in Passwords, reply \in Replies :
        Call(c, "sign_in", Client_sign_in(clients[c], email, password, reply))

send_otp(c) ==
    \E email_or_phone \in Selectors, should_create_user \in ShouldCreateUser,
       reply \in Replies :
        Call(c, "send_otp",
             Client_send_otp(clients[c], email_or_phone, should_create_user, reply))

verify_otp(c) ==
    \E params \in OtpParams, reply \in Replies :
        Call(c, "verify_otp", Client_verify_otp(clients[c], params, reply))

sign_out(c) ==
    \E reply \in Replies :
        Call(c, "sign_out", Client_sign_out(clients[c], reply))

reset_password_for_email(c) ==
    \E email \in Emails, reply \in Replies :
        Call(c, "reset_password_for_email",
             Client_reset_password_for_email(clients[c], email, reply))

update_user(c) ==
    \E user \in UserAttributes, reply \in Replies :
        Call(c, "update_user", Client_update_user(clients[c], user, reply))

refresh_session(c) ==
    \E reply \in Replies :
        Call(c, "refresh_session", Client_refresh_session(clients[c], reply))

Next ==
    \E c \in Instances :
        \/ sign_up(c)
        \/ sign_in(c)
        \/ send_otp(c)
        \/ verify_otp(c)
        \/ sign_out(c)
        \/ reset_password_for_email(c)
        \/ update_user(c)
        \/ refresh_session(c)

Spec == Init /\ [][Next]_vars

(***************************************************************************)
(* The Transport used on its own: the caller builds an Api with Api::new   *)
(* and insert_header and invokes its operations.  No Client is involved,   *)
(* so clients and last stay as Init leaves them.                           *)
(***************************************************************************)
\* Arguments the callers pass.
BaseUrls == {"http://localhost:9998", "https://auth.example.com/v1"}
StaticHeaderNames == {"apikey", "ApiKey", "Authorization"}
StaticHeaderValues == {"super.secret.key", "Bearer service"}
Tokens == {"tok1", "tok2", "tok\n"}
QueryStrings == {None, Some("?page=2"), Some("page=2"), Some("")}
UserIds == {"u-1"}
AdminUsers == {[kind |-> "Serializable",
                payload |-> [email |-> "a@example.com", password |-> "Abcd1234!"]],
               [kind |-> "Unserializable"]}

\* What the service may answer to a request of the Api.
ApiReplies ==
    Replies \cup {Response(200, UserBody("a@example.com")),
                  Response(200, UserListBody(<< "a@example.com" >>))}

InitApi ==
    /\ clients \in [Instances -> {Client_new(u) : u \in Urls}]
    /\ process = "running"
    /\ last = [client |-> NumClients, op |-> "new", pre |-> None, calls |-> << >>,
               ret |-> Return(Bool(TRUE))]
    /\ api \in {Api_new(u) : u \in BaseUrls}
    /\ sent = None

\* insert_header consumes the Api and returns the one that holds the header;
\* the new value has sent nothing yet.  Header values are valid ones.
api_insert_header ==
    \E header_name \in StaticHeaderNames, header_value \in StaticHeaderValues :
        /\ process = "running"
        /\ api' = Api_insert_header(api, header_name, header_value)
        /\ sent' = None
        /\ UNCHANGED << clients, process, last >>

\* One operation invoked on api.
Invoke(call) ==
    /\ process = "running"
    /\ sent' = Some(call)
    /\ IF call.result.tag = "Panic"
       THEN process' \in {"running", "aborted"}
       ELSE process' = "running"
    /\ UNCHANGED << clients, last, api >>

api_sign_up ==
    \E email_or_phone \in Selectors, password \in Passwords, reply \in ApiReplies :
        Invoke(Api_sign_up(api, email_or_phone, password, reply))

api_sign_in ==
    \E email_or_phone \in Selectors, password \in Passwords, reply \in ApiReplies :
        Invoke(Api_sign_in(api, email_or_phone, password, reply))

api_send_otp ==
    \E email_or_phone \in Selectors, should_create_user \in {None, Some(TRUE), Some(FALSE)},
       reply \in ApiReplies :
        Invoke(Api_send_otp(api, email_or_phone, should_create_user, reply))

api_verify_otp ==
    \E params \in OtpParams, reply \in ApiReplies :
        Invoke(Api_verify_otp(api, params, reply))

api_sign_out ==
    \E access_token \in Tokens, reply \in ApiReplies :
        Invoke(Api_sign_out(api, access_token, reply))

api_reset_password_for_email ==
    \E email \in Emails, reply \in ApiReplies :
        Invoke(Api_reset_password_for_email(api, email, reply))

api_refresh_access_token ==
    \E refresh_token \in {"", "r1"}, reply \in ApiReplies :
        Invoke(Api_refresh_access_token(api, refresh_token, reply))

api_get_user ==
    \E jwt \in Tokens, reply \in ApiReplies :
        Invoke(Api_get_user(api, jwt, reply))

api_update_user ==
    \E user \in UserAttributes, jwt \in Tokens, reply \in ApiReplies :
        Invoke(Api_update_user(api, user, jwt, reply))

api_invite_user_by_email ==
    \E email \in Emails, reply \in ApiReplies :
        Invoke(Api_invite_user_by_email(api, email, reply))

api_list_users ==
    \E query_string \in QueryStrings, reply \in ApiReplies :
        Invoke(Api_list_users(api, query_string, reply))

api_get_user_by_id ==
    \E user_id \in UserIds, reply \in ApiReplies :
        Invoke(Api_get_user_by_id(api, user_id, reply))

api_create_user ==
    \E user \in AdminUsers, reply \in ApiReplies :
        Invoke(Api_create_user(api, user, reply))

api_update_user_by_id ==
    \E id \in UserIds, user \in AdminUsers, reply \in ApiReplies :
        Invoke(Api_update_user_by_id(api, id, user, reply))

api_delete_user ==
    \E user_id \in UserIds, reply \in ApiReplies :
        Invoke(Api_delete_user(api, user_id, reply))

NextApi ==
    \/ api_insert_header
    \/ api_sign_up
    \/ api_sign_in
    \/ api_send_otp
    \/ api_verify_otp
    \/ api_sign_out
    \/ api_reset_password_for_email
    \/ api_refresh_access_token
    \/ api_get_user
    \/ api_update_user
    \/ api_invite_user_by_email
    \/ api_list_users
    \/ api_get_user_by_id
    \/ api_create_user
    \/ api_update_user_by_id
    \/ api_delete_user

SpecApi == InitApi /\ [][NextApi]_vars

(***************************************************************************)
(* Properties.  last describes the call made last, so in every state the   *)
(* instance clients[last.client] is as that call left it and last.pre is   *)
(* its current Session as the call found it.                               *)
(***************************************************************************)
\* The current Session of the instance of the last call, after the call.
CurrentAfter == clients[last.client].current_session

\* The last call invoked Transport exactly once / not at all.
InvokedTransport == Len(last.calls) = 1
NoTransport == last.calls = << >>

\* The result of the Transport operation the last call invoked.
TransportResult == last.calls[1].result

SignOps == {"sign_up", "sign_in"}

\* C1: when the Transport call of sign_up or sign_in returns a Session, the
\* current Session right after the call is that Session, whatever it was
\* before, and the caller is handed the same Session.
C1_SignInstallsSession ==
    (last.op \in SignOps /\ InvokedTransport /\ TransportResult.tag = "Ok")
        => /\ CurrentAfter = Some(TransportResult.val)
           /\ last.ret = Return(TransportResult.val)

\* A sign_in that succeeded on an instance holding a different Session.
C1_Witness ==
    /\ last.op = "sign_in"
    /\ InvokedTransport
    /\ TransportResult.tag = "Ok"
    /\ last.pre.tag = "Some"
    /\ last.pre.val # TransportResult.val
    /\ CurrentAfter = Some(TransportResult.val)

\* C2: a sign_out on an instance with a current Session whose Transport call
\* succeeds leaves the instance without a current Session.
C2_SignOutClears ==
    (last.op = "sign_out" /\ last.pre.tag = "Some" /\ InvokedTransport
        /\ TransportResult.tag = "Ok")
        => CurrentAfter = None

\* C3: when the Transport call of sign_up, sign_in, sign_out or
\* refresh_session does not succeed, the current Session after the call is
\* the current Session before it.
C3_FailureKeepsSession ==
    (last.op \in SignOps \cup {"sign_out", "refresh_session"}
        /\ InvokedTransport /\ TransportResult.tag # "Ok")
        => CurrentAfter = last.pre

\* A refresh_session whose Transport call failed on an instance that holds a
\* Session, which it still holds.
C3_Witness ==
    /\ last.op = "refresh_session"
    /\ InvokedTransport
    /\ TransportResult.tag = "Err"
    /\ last.pre.tag = "Some"
    /\ CurrentAfter = last.pre

\* C4: when the Transport call of sign_up or sign_in fails, the call returns
\* an error value to its caller and the process goes on.
C4_SignFailureReturnsError ==
    (last.op \in SignOps /\ InvokedTransport /\ TransportResult.tag = "Err")
        => /\ last.ret.tag = "Return"
           /\ process = "running"

\* C5: refresh_session on an instance without a current Session returns
\* NotAuthenticated, invokes no Transport operation and leaves the Session
\* absent.
C5_RefreshUnauthenticated ==
    (last.op = "refresh_session" /\ last.pre = None)
        => /\ last.ret = Return(Err(NotAuthenticated))
           /\ NoTransport
           /\ CurrentAfter = None

\* A refresh_session made on an instance without a Session.
C5_Witness ==
    /\ last.op = "refresh_session"
    /\ last.pre = None
    /\ last.ret = Return(Err(NotAuthenticated))

\* C6: update_user on an instance without a current Session returns the
\* NotAuthenticated error as a value and invokes no Transport operation.
C6_UpdateUnauthenticated ==
    (last.op = "update_user" /\ last.pre = None)
        => /\ last.ret = Return(Err(NotAuthenticated))
           /\ process = "running"
           /\ NoTransport

\* C7: sign_out on an instance without a current Session returns true,
\* invokes no Transport operation and leaves the Session absent, so that a
\* repetition finds the same state and does the same.
C7_SignOutIdempotent ==
    (last.op = "sign_out" /\ last.pre = None)
        => /\ last.ret = Return(Bool(TRUE))
           /\ NoTransport
           /\ CurrentAfter = None
           /\ process = "running"

\* A sign_out made on an instance without a Session.
C7_Witness ==
    /\ last.op = "sign_out"
    /\ last.pre = None
    /\ last.ret = Return(Bool(TRUE))

\* The access token an authenticated Transport operation was handed.
TokenPassed(call) ==
    IF call.fn = "sign_out" THEN call.args.access_token ELSE call.args.jwt

\* C8: a refresh_session that succeeds makes the returned Session, as a
\* whole, the current one; every sign_out and update_user hands Transport
\* the access token of the Session current when it is called; and only
\* sign_up, sign_in and refresh_session replace the Session.  So after a
\* refresh to S2 every authenticated call passes S2's access token until
\* one of these three replaces S2.
C8_RefreshedTokenUsed ==
    /\ (last.op = "refresh_session" /\ InvokedTransport /\ TransportResult.tag = "Ok")
           => CurrentAfter = Some(TransportResult.val)
    /\ (last.op \in {"sign_out", "update_user"} /\ last.pre.tag = "Some")
           => /\ InvokedTransport
              /\ TokenPassed(last.calls[1]) = last.pre.val.access_token
    /\ (last.op \notin SignOps \cup {"refresh_session"}) => CurrentAfter = last.pre

\* A refresh_session that replaced a Session by one with another access
\* token.
C8_Witness ==
    /\ last.op = "refresh_session"
    /\ InvokedTransport
    /\ TransportResult.tag = "Ok"
    /\ last.pre.tag = "Some"
    /\ last.pre.val.access_token # TransportResult.val.access_token
    /\ CurrentAfter = Some(TransportResult.val)

\* C9: send_otp, verify_otp, reset_password_for_email and update_user leave
\* the current Session as they found it, whatever the service answers.
C9_StatelessOps ==
    (last.op \in {"send_otp", "verify_otp", "reset_password_for_email", "update_user"})
        => CurrentAfter = last.pre

\* An update_user the service rejected on an instance that holds a Session.
C9_Witness ==
    /\ last.op = "update_user"
    /\ last.pre.tag = "Some"
    /\ InvokedTransport
    /\ TransportResult.tag = "Err"
    /\ CurrentAfter = last.pre

\* C10: refresh_session on an instance whose current Session has an empty
\* refresh token returns MissingRefreshToken, invokes no Transport
\* operation and leaves the Session as it is.
C10_MissingRefreshToken ==
    (last.op = "refresh_session" /\ last.pre.tag = "Some"
        /\ last.pre.val.refresh_token = "")
        => /\ last.ret = Return(Err(MissingRefreshToken))
           /\ NoTransport
           /\ CurrentAfter = last.pre

(***************************************************************************)
(* Properties of the Transport.  sent describes the operation invoked last *)
(* on api; api is the value the operation was invoked on, since no         *)
(* operation changes it.                                                   *)
(***************************************************************************)
\* Every Transport invocation the state records: the one made directly on
\* api and the ones the last Client call made.
Invocations ==
    (IF sent.tag = "Some" THEN {sent.val} ELSE {})
        \cup {last.calls[i] : i \in 1..Len(last.calls)}

AuthenticatedFns == {"sign_out", "get_user", "update_user"}
UnauthenticatedFns ==
    {"sign_up", "sign_in", "send_otp", "verify_otp", "reset_password_for_email",
     "refresh_access_token"}

\* The requests of an invocation, as a set.
RequestsOf(call) == {call.requests[i] : i \in 1..Len(call.requests)}

\* C11: every request of sign_out, get_user and update_user carries the
\* Authorization header "Bearer " followed by the token the caller passed
\* (for a Client call: the access token of the Session current when the call
\* was made); the requests of sign_up, sign_in, send_otp, verify_otp,
\* reset_password_for_email and refresh_access_token carry the configured
\* headers and nothing else, so no Authorization header of the Transport's
\* making.
C11_BearerAuthorization ==
    /\ \A call \in Invocations : \A req \in RequestsOf(call) :
        /\ call.fn \in AuthenticatedFns
            => /\ "authorization" \in DOMAIN req.headers
               /\ req.headers["authorization"] = "Bearer " \o TokenPassed(call)
        /\ call.fn \in UnauthenticatedFns
            => req.headers = (IF sent.tag = "Some" THEN api.headers
                              ELSE clients[last.client].api.headers)
    /\ (last.op \in {"sign_out", "update_user"} /\ last.pre.tag = "Some")
        => \A call \in Invocations : \A req \in RequestsOf(call) :
            req.headers["authorization"] = "Bearer " \o last.pre.val.access_token

\* A get_user on an Api configured with its own Authorization header: the
\* request carries the caller's token instead.
C11_Witness ==
    /\ sent.tag = "Some"
    /\ sent.val.fn = "get_user"
    /\ "authorization" \in DOMAIN api.headers
    /\ api.headers["authorization"] = "Bearer service"
    /\ \E req \in RequestsOf(sent.val) :
        req.headers["authorization"] = "Bearer " \o sent.val.args.jwt

\* C12: every instance starts without a current Session, and a call on one
\* instance, whatever its outcome, leaves the current Session of every other
\* instance as it was.
C12_PerInstanceState ==
    /\ \A c \in Instances : clients[c].current_session = None
    /\ [][\A c \in Instances :
            c # last'.client
                => clients'[c].current_session = clients[c].current_session]_vars

\* A sign_up or sign_in that installed a Session on one instance while
\* another instance holds a different one.
C12_Witness ==
    /\ last.op \in SignOps
    /\ CurrentAfter.tag = "Some"
    /\ CurrentAfter # last.pre
    /\ \E c \in Instances :
        /\ c # last.client
        /\ clients[c].current_session.tag = "Some"
        /\ clients[c].current_session # CurrentAfter

\* C13: the current Session of every instance is absent or one of the
\* Sessions the service returns, and whenever a call changes it the new
\* value is, as a whole, the Session its single Transport invocation
\* (sign_up, sign_in or refresh_access_token) returned.
C13_WholeSession ==
    /\ \A c \in Instances :
        clients[c].current_session \in {None} \cup {Some(s) : s \in Sessions}
    /\ CurrentAfter # last.pre
        => /\ InvokedTransport
           /\ last.calls[1].fn \in {"sign_up", "sign_in", "refresh_access_token"}
           /\ TransportResult.tag = "Ok"
           /\ TransportResult.val \in Sessions
           /\ CurrentAfter = Some(TransportResult.val)

\* A sign_up answered with a Session that differs in every field from the
\* one held before.
C13_Witness ==
    /\ last.op = "sign_up"
    /\ last.pre.tag = "Some"
    /\ InvokedTransport
    /\ TransportResult.tag = "Ok"
    /\ TransportResult.val.access_token # last.pre.val.access_token
    /\ TransportResult.val.refresh_token # last.pre.val.refresh_token
    /\ TransportResult.val.user # last.pre.val.user
    /\ CurrentAfter = Some(TransportResult.val)

\* C14: list_users(None) issues one GET to the base URL followed by
\* /admin/users and nothing more, and list_users(Some(q)) issues one GET to
\* the base URL followed by /admin/users followed by q as it was passed; so
\* with the base URL http://localhost:9998 and q = "?page=2" the request
\* goes to http://localhost:9998/admin/users?page=2.
C14_ListUsersUrl ==
    (sent.tag = "Some" /\ sent.val.fn = "list_users")
        => /\ Len(sent.val.requests) = 1
           /\ sent.val.requests[1].method = "GET"
           /\ sent.val.args.query_string = None
                => sent.val.requests[1].endpoint = api.url \o "/admin/users"
           /\ sent.val.args.query_string # None
                => sent.val.requests[1].endpoint
                     = api.url \o "/admin/users" \o sent.val.args.query_string.val
           /\ (api.url = "http://localhost:9998"
                 /\ sent.val.args.query_string = Some("?page=2"))
                => sent.val.requests[1].endpoint
                     = "http://localhost:9998/admin/users?page=2"

\* list_users(Some("?page=2")) on an Api for the second base URL.
C14_Witness ==
    /\ sent.tag = "Some"
    /\ sent.val.fn = "list_users"
    /\ sent.val.args.query_string = Some("?page=2")
    /\ api.url = "https://auth.example.com/v1"
    /\ sent.val.requests[1].endpoint = "https://auth.example.com/v1/admin/users?page=2"

\* The identifier fields of a JSON object.
IdentifierFields(object) == DOMAIN object \cap {"email", "phone"}

\* C15: the body of every sign_up, sign_in and send_otp request is a JSON
\* object with exactly one of the fields email and phone: email, holding the
\* identifier, when the selector is Email, and phone, holding the
\* identifier, when it is Phone.
C15_OneIdentifierField ==
    \A call \in Invocations :
        call.fn \in {"sign_up", "sign_in", "send_otp"}
            => /\ Len(call.requests) = 1
               /\ \A req \in RequestsOf(call) :
                    /\ req.body.kind = "json"
                    /\ call.args.email_or_phone.kind = "Email"
                         => /\ IdentifierFields(req.body.json) = {"email"}
                            /\ req.body.json.email = call.args.email_or_phone.value
                    /\ call.args.email_or_phone.kind = "Phone"
                         => /\ IdentifierFields(req.body.json) = {"phone"}
                            /\ req.body.json.phone = call.args.email_or_phone.value

\* A sign_in by phone number.
C15_Witness ==
    /\ sent.tag = "Some"
    /\ sent.val.fn = "sign_in"
    /\ sent.val.args.email_or_phone = Phone("+15550100")
    /\ IdentifierFields(sent.val.requests[1].body.json) = {"phone"}

\* C16: every request of every operation invoked on api carries each header
\* configured with insert_header, with its configured value; the one
\* exception is a configured Authorization header on sign_out, get_user and
\* update_user, whose value is the bearer token instead.
C16_StaticHeadersSent ==
    sent.tag = "Some"
        => \A req \in RequestsOf(sent.val) : \A k \in DOMAIN api.headers :
            /\ k \in DOMAIN req.headers
            /\ (k # "authorization" \/ sent.val.fn \notin AuthenticatedFns)
                 => req.headers[k] = api.headers[k]

\* An update_user on an Api configured with an apikey and an Authorization
\* header: the request carries the apikey and the caller's bearer token.
C16_Witness ==
    /\ sent.tag = "Some"
    /\ sent.val.fn = "update_user"
    /\ DOMAIN api.headers = {"apikey", "authorization"}
    /\ \E req \in RequestsOf(sent.val) :
        /\ req.headers["apikey"] = api.headers["apikey"]
        /\ req.headers["authorization"] # api.headers["authorization"]

\* C17: a call that finds no current Session leaves a Session behind only if
\* it is a sign_up or sign_in whose Transport call succeeded; send_otp,
\* verify_otp, sign_out, reset_password_for_email and refresh_session on an
\* instance without a Session leave it without one, whatever the service
\* answers, and so does every sequence of them.
C17_OnlySignInstallsFirst ==
    /\ (last.pre = None /\ CurrentAfter # None)
        => /\ last.op \in SignOps
           /\ InvokedTransport
           /\ TransportResult.tag = "Ok"
    /\ (last.pre = None
          /\ last.op \in {"send_otp", "verify_otp", "sign_out",
                          "reset_password_for_email", "refresh_session"})
        => CurrentAfter = None

\* A verify_otp the service accepted on an instance without a Session.
C17_Witness ==
    /\ last.op = "verify_otp"
    /\ last.pre = None
    /\ InvokedTransport
    /\ TransportResult.tag = "Ok"
    /\ CurrentAfter = None

\* C18: every refresh_session on an instance that holds a Session invokes
\* refresh_access_token once, with the refresh token of the Session the
\* instance holds when the call is made, and that token is what the request
\* body carries; a Session that a sign_up, sign_in or refresh_session has
\* replaced is no longer held, so its refresh token is not the one sent.
C18_CurrentRefreshTokenSent ==
    [][(last'.op = "refresh_session"
          /\ clients[last'.client].current_session.tag = "Some")
        => /\ Len(last'.calls) = 1
           /\ last'.calls[1].fn = "refresh_access_token"
           /\ last'.calls[1].args.refresh_token
                = clients[last'.client].current_session.val.refresh_token
           /\ Len(last'.calls[1].requests) = 1
           /\ last'.calls[1].requests[1].body
                = Json([refresh_token |->
                          clients[last'.client].current_session.val.refresh_token])
           /\ last'.calls[1].result.tag = "Ok"
                => clients'[last'.client].current_session
                     = Some(last'.calls[1].result.val)]_vars

\* A refresh_session that sent r2, the refresh token of the Session held,
\* and replaced that Session by one whose refresh token is r1.
C18_Witness ==
    /\ last.op = "refresh_session"
    /\ last.pre.tag = "Some"
    /\ last.pre.val.refresh_token = "r2"
    /\ InvokedTransport
    /\ last.calls[1].args.refresh_token = "r2"
    /\ TransportResult.tag = "Ok"
    /\ CurrentAfter.val.refresh_token = "r1"

\* The Transport operation of the last call failed / succeeded.
TransportFailed == InvokedTransport /\ TransportResult.tag = "Err"
TransportSucceeded == InvokedTransport /\ TransportResult.tag = "Ok"

\* C19: refresh_session returns Err(NotAuthenticated) exactly when the
\* instance holds no Session, Err(InternalError) exactly when it holds one
\* and the Transport call fails, and Ok with the Session Transport returned
\* exactly when it holds one and the Transport call succeeds; it returns
\* nothing else, so a failed Transport call is never reported as Ok.
C19_RefreshOutcomes ==
    last.op = "refresh_session"
        => /\ last.ret = Return(Err(NotAuthenticated)) <=> last.pre = None
           /\ last.ret = Return(Err(InternalError))
                <=> (last.pre # None /\ TransportFailed)
           /\ (last.ret.tag = "Return" /\ last.ret.val.tag = "Ok")
                <=> (last.pre # None /\ TransportSucceeded)
           /\ (last.pre # None /\ TransportSucceeded)
                => last.ret = Return(Ok(TransportResult.val))
           /\ \/ last.pre = None
              \/ TransportFailed
              \/ TransportSucceeded

\* A refresh_session whose Transport call failed: the service answered, but
\* not with a Session, or did not answer.
C19_Witness ==
    /\ last.op = "refresh_session"
    /\ last.pre # None
    /\ TransportFailed
    /\ last.ret = Return(Err(InternalError))
    /\ last.ret # Return(Err(NotAuthenticated))

\* C20: send_otp, verify_otp and reset_password_for_email return true
\* exactly when their Transport call succeeded and false exactly when it
\* failed; sign_out returns false exactly when the instance holds a Session
\* and the Transport call failed, and true in every other case; and none of
\* the four ends in a panic when its Transport call failed.
C20_BooleanOutcomes ==
    /\ last.op \in {"send_otp", "verify_otp", "reset_password_for_email"}
        => /\ last.ret = Return(Bool(TRUE)) <=> TransportSucceeded
           /\ last.ret = Return(Bool(FALSE)) <=> TransportFailed
    /\ last.op = "sign_out"
        => /\ last.ret = Return(Bool(FALSE)) <=> (last.pre # None /\ TransportFailed)
           /\ ~(last.pre # None /\ TransportFailed) => last.ret = Return(Bool(TRUE))
    /\ (last.op \in {"send_otp", "verify_otp", "reset_password_for_email", "sign_out"}
          /\ TransportFailed)
        => /\ last.ret.tag = "Return"
           /\ process = "running"

\* The operations a caller can invoke on a Client.
ClientOps ==
    {"sign_up", "sign_in", "send_otp", "verify_otp", "sign_out",
     "reset_password_for_email", "update_user", "refresh_session"}

\* C21: every transition is one operation a caller invoked; the current
\* Session of an instance changes only in a sign_up, sign_in,
\* refresh_session or sign_out invoked on that instance; every operation
\* invokes Transport at most once and that invocation sends at most one
\* request; and the auto-refresh flag, set in every instance, is never
\* changed and leads to no refresh: the operations other than
\* refresh_session never invoke refresh_access_token.
C21_OnlyCallerDriven ==
    /\ [](/\ Len(last.calls) <= 1
          /\ \A i \in 1..Len(last.calls) :
               /\ Len(last.calls[i].requests) <= 1
               /\ last.calls[i].fn = "refresh_access_token"
                    => last.op = "refresh_session"
          /\ \A c \in Instances : clients[c].auto_refresh_token = TRUE)
    /\ [][/\ last'.op \in ClientOps
          /\ \A c \in Instances :
               /\ clients'[c].current_session # clients[c].current_session
                    => /\ c = last'.client
                       /\ last'.op \in {"sign_up", "sign_in", "refresh_session",
                                        "sign_out"}
               /\ clients'[c].auto_refresh_token = clients[c].auto_refresh_token
               /\ clients'[c].api = clients[c].api]_vars

\* A send_otp on an instance that holds a Session and has the auto-refresh
\* flag set: one Transport invocation, of send_otp, and the Session is as it
\* was.
C21_Witness ==
    /\ last.op = "send_otp"
    /\ last.pre.tag = "Some"
    /\ clients[last.client].auto_refresh_token = TRUE
    /\ Len(last.calls) = 1
    /\ last.calls[1].fn = "send_otp"
    /\ Len(last.calls[1].requests) = 1
    /\ CurrentAfter = last.pre
====
